---- MODULE Spec2Model ----
(***************************************************************************)
(* Model of metric.py: the Metric class (construction, deriv,              *)
(* compute_christoffel, compute_geodesic_rhs) and the preset factory       *)
(* getMetric.                                                              *)
(*                                                                         *)
(* Expressions.  A sympy expression over the coordinates and parameters is *)
(* held by its first-order expansion at a sample point: its value there    *)
(* and its partial derivative there with respect to each symbol.  The      *)
(* input matrices are built from polynomials of degree at most one         *)
(* (c + SUM_s d[s] * s, sample point: every symbol 0), for which the       *)
(* expansion is the expression itself and sympy.diff is computed exactly.  *)
(* The inverse metric, the Christoffel symbols and the coefficients of the *)
(* geodesic right-hand sides are exact rationals: their values at the      *)
(* sample point.  A value whose denominator vanishes there is Undef.       *)
(***************************************************************************)
EXTENDS Integers, Sequences, FiniteSets, TLC

\* Largest number of rows or columns of an input matrix.
MaxSide == 4
\* Largest length of an input coordinate list.
MaxCoords == 4
\* Number of getMetric calls a behaviour makes.
MaxCalls == 3

\* u0, u1, u2, u3: the velocity symbols __init__ creates.
NumVelocities == 4

(***************************************************************************)
(* Exact rational arithmetic: <<n, d>> with d > 0 and gcd(n, d) = 1;       *)
(* <<1, 0>> is the undefined value (a division by zero).                   *)
(***************************************************************************)
Abs(x) == IF x < 0 THEN -x ELSE x

RECURSIVE GCD(_, _)
GCD(a, b) == IF b = 0 THEN a ELSE GCD(b, a % b)

Undef == <<1, 0>>

Norm(n, d) ==
  IF d = 0 THEN Undef
  ELSE LET k == GCD(Abs(n), Abs(d))
           s == IF d < 0 THEN -1 ELSE 1
       IN  <<(s * n) \div k, (s * d) \div k>>

RInt(n) == <<n, 1>>
RZero == RInt(0)
RHalf == <<1, 2>>

RAdd(a, b) ==
  IF a[2] = 0 \/ b[2] = 0 THEN Undef
  ELSE Norm(a[1] * b[2] + b[1] * a[2], a[2] * b[2])

RMul(a, b) ==
  IF a[2] = 0 \/ b[2] = 0 THEN Undef
  ELSE Norm(a[1] * b[1], a[2] * b[2])

RNeg(a) == IF a[2] = 0 THEN Undef ELSE <<-a[1], a[2]>>

RSub(a, b) == RAdd(a, RNeg(b))

(***************************************************************************)
(* Expressions: [c |-> value at the sample point, d |-> the partial        *)
(* derivative at the sample point with respect to each symbol].            *)
(***************************************************************************)
\* The symbols an input matrix may mention: the symbols 1..MaxCoords serve
\* as coordinates, the last one is a parameter that is never a coordinate.
NSym == MaxCoords + 1
Symbols == 1..NSym

Const(S, c) == [c |-> c, d |-> [s \in S |-> 0]]

\* Mutant of sympy_diff: the expression's value is returned where its
\* derivative is due.
sympy_diff_Undifferentiated(e, x) == Const(DOMAIN e.d, e.c)

\* sympy.diff(e, x) at the sample point.  For a polynomial of degree at
\* most one, the derivative is the constant e.d[x] (0 when x does not
\* occur in e).
sympy_diff(e, x) ==
  Const(DOMAIN e.d, IF x \in DOMAIN e.d THEN e.d[x] ELSE 0)

ExprAdd(e, f) == [c |-> e.c + f.c, d |-> [s \in DOMAIN e.d |-> e.d[s] + f.d[s]]]
ExprSub(e, f) == [c |-> e.c - f.c, d |-> [s \in DOMAIN e.d |-> e.d[s] - f.d[s]]]

\* The value of an expression at the sample point.
Value(e) == e.c

RECURSIVE SumAt(_, _, _)
SumAt(e, p, S) ==
  IF S = {} THEN 0
  ELSE LET s == CHOOSE x \in S : TRUE
       IN  e.d[s] * p[s] + SumAt(e, p, S \ {s})

\* The value of a polynomial of degree at most one at the point that lies
\* p[s] away from the sample point in each symbol s of p's domain.
ValueAt(e, p) == e.c + SumAt(e, p, DOMAIN p)

(***************************************************************************)
(* Matrices: [rows, cols, e], e[i][j] for i in 1..rows, j in 1..cols.      *)
(* Python indices are 0-based and a negative index counts from the end.    *)
(***************************************************************************)
\* Whether index i is accepted by a container of length n.
ValidIdx(i, n) == -n <= i /\ i < n

\* The 1-based position index i denotes (i valid).
Pos(i, n) == IF i < 0 THEN i + n + 1 ELSE i + 1

\* M[i, j]
MatGet(M, i, j) == M.e[Pos(i, M.rows)][Pos(j, M.cols)]

MatValid(M, i, j) == ValidIdx(i, M.rows) /\ ValidIdx(j, M.cols)

\* lst[i] of a Python list held as a sequence
ListGet(lst, i) == lst[Pos(i, Len(lst))]

\* A with row i and column j removed (A an n x n function matrix).
Minor(A, n, i, j) ==
  [a \in 1..(n - 1) |->
     [b \in 1..(n - 1) |->
        A[IF a < i THEN a ELSE a + 1][IF b < j THEN b ELSE b + 1]]]

Sign(k) == IF k % 2 = 0 THEN 1 ELSE -1

RECURSIVE DetSum(_, _, _)
RECURSIVE Det(_, _)
\* Determinant of the n x n integer matrix A (expansion along row 1).
Det(A, n) ==
  IF n = 0 THEN 1
  ELSE IF n = 1 THEN A[1][1]
  ELSE DetSum(A, n, n)

DetSum(A, n, j) ==
  IF j = 0 THEN 0
  ELSE Sign(1 + j) * A[1][j] * Det(Minor(A, n, 1, j), n - 1)
       + DetSum(A, n, j - 1)

\* The integer matrix of the values of M's entries at the point p.
ValuesAt(M, p) ==
  [i \in 1..M.rows |-> [j \in 1..M.cols |-> ValueAt(M.e[i][j], p)]]

\* The integer matrix of the values of M's entries at the sample point.
Values(M) == [i \in 1..M.rows |-> [j \in 1..M.cols |-> Value(M.e[i][j])]]

IsSquare(M) == M.rows = M.cols

\* The symbols that occur in M's entries.
free_symbols(M) ==
  {s \in DOMAIN M.e[1][1].d :
     \E i \in 1..M.rows : \E j \in 1..M.cols : M.e[i][j].d[s] # 0}

\* The points that decide whether the determinant of a matrix of
\* polynomials of degree at most one is the zero expression: det(M) has
\* degree at most M.rows in each symbol that occurs in M, so it is the zero
\* polynomial iff it vanishes on the grid 0..M.rows in each of them.
Grid(M) == [free_symbols(M) -> 0..M.rows]

\* det(M) is the zero expression (M square): inversion fails.  A
\* determinant that is not 0 at the sample point is not the zero expression.
IsSingular(M) ==
  /\ Det(Values(M), M.rows) = 0
  /\ \A p \in Grid(M) : Det(ValuesAt(M, p), M.rows) = 0

\* M.inv() for a square M whose determinant is not the zero expression, by
\* value at the sample point: adjugate / determinant (Undef where the
\* determinant vanishes at the sample point).
MatInv(M) ==
  LET n == M.rows
      V == Values(M)
      d == Det(V, n)
  IN  [rows |-> n, cols |-> n,
       e |-> [i \in 1..n |->
                [j \in 1..n |->
                   Norm(Sign(i + j) * Det(Minor(V, n, j, i), n - 1), d)]]]

(***************************************************************************)
(* Outcomes of a call: a returned value or a raised exception.             *)
(***************************************************************************)
Returned(v) == [val |-> v]
Raised(x) == [exc |-> x]
IsRaised(r) == "exc" \in DOMAIN r

(***************************************************************************)
(* class Metric.  An object is the record of its fields; the methods take  *)
(* it as self.                                                             *)
(***************************************************************************)
\* [u0, u1, u2, u3]
VelocitySymbols == [k \in 1..NumVelocities |-> k - 1]

\* A product u_a * u_b of two velocity symbols (products commute).
Monomial(a, b) == {a, b}

Monomials ==
  {Monomial(VelocitySymbols[a], VelocitySymbols[b]) : a, b \in 1..NumVelocities}

\* Mutant of deriv: the coordinate is taken at index mu instead of rho.
deriv_WrongCoordinate(self, mu, nu, rho) ==
  IF ~MatValid(self.g, mu, nu) \/ ~ValidIdx(mu, Len(self.coordinates))
  THEN Raised("IndexError")
  ELSE Returned(sympy_diff(MatGet(self.g, mu, nu),
                           ListGet(self.coordinates, mu)))

\* Metric.deriv(mu, nu, rho)
deriv(self, mu, nu, rho) ==
  IF ~MatValid(self.g, mu, nu) \/ ~ValidIdx(rho, Len(self.coordinates))
  THEN Raised("IndexError")
  ELSE Returned(sympy_diff(MatGet(self.g, mu, nu),
                           ListGet(self.coordinates, rho)))

\* Mutant of ChristoffelTerm: the second derivative repeats the first
\* instead of exchanging rho and sigma.
ChristoffelTerm_NoExchange(self, mu, rho, sigma, nu) ==
  LET a == deriv(self, nu, rho, sigma)
      c == deriv(self, rho, sigma, nu)
  IN  IF \/ ~MatValid(self.g_inv, mu, nu)
         \/ IsRaised(a) \/ IsRaised(c)
      THEN Raised("IndexError")
      ELSE Returned(RMul(RMul(RHalf, MatGet(self.g_inv, mu, nu)),
                         RInt(Value(ExprSub(ExprAdd(a.val, a.val), c.val)))))

\* The term compute_christoffel adds to result in the iteration for nu.
ChristoffelTerm(self, mu, rho, sigma, nu) ==
  LET a == deriv(self, nu, rho, sigma)
      b == deriv(self, nu, sigma, rho)
      c == deriv(self, rho, sigma, nu)
  IN  IF \/ ~MatValid(self.g_inv, mu, nu)
         \/ IsRaised(a) \/ IsRaised(b) \/ IsRaised(c)
      THEN Raised("IndexError")
      ELSE Returned(RMul(RMul(RHalf, MatGet(self.g_inv, mu, nu)),
                         RInt(Value(ExprSub(ExprAdd(a.val, b.val), c.val)))))

\* result of compute_christoffel after the iterations nu = 0 .. k-1.
RECURSIVE ChristoffelLoop(_, _, _, _, _)
ChristoffelLoop(self, mu, rho, sigma, k) ==
  IF k = 0 THEN Returned(RZero)
  ELSE LET prev == ChristoffelLoop(self, mu, rho, sigma, k - 1)
           term == ChristoffelTerm(self, mu, rho, sigma, k - 1)
       IN  IF IsRaised(prev) THEN prev
           ELSE IF IsRaised(term) THEN term
           ELSE Returned(RAdd(prev.val, term.val))

\* Metric.compute_christoffel(mu, rho, sigma)
compute_christoffel(self, mu, rho, sigma) ==
  ChristoffelLoop(self, mu, rho, sigma, self.dim)

\* The zero expression in the velocities.
ZeroRhs == [m \in Monomials |-> RZero]

\* Mutant of GeodesicStep: the term is added instead of subtracted.
GeodesicStep_Added(self, result, mu, rho, sigma) ==
  LET gamma == compute_christoffel(self, mu, rho, sigma)
      n == Len(self.velocities)
  IN  IF IsRaised(gamma) THEN gamma
      ELSE IF ~ValidIdx(rho, n) \/ ~ValidIdx(sigma, n)
      THEN Raised("IndexError")
      ELSE LET m == Monomial(ListGet(self.velocities, rho),
                             ListGet(self.velocities, sigma))
           IN  Returned([result EXCEPT ![m] = RAdd(@, gamma.val)])

\* The step of compute_geodesic_rhs's inner loop for (rho, sigma):
\* result -= christoffel * velocities[rho] * velocities[sigma].
GeodesicStep(self, result, mu, rho, sigma) ==
  LET gamma == compute_christoffel(self, mu, rho, sigma)
      n == Len(self.velocities)
  IN  IF IsRaised(gamma) THEN gamma
      ELSE IF ~ValidIdx(rho, n) \/ ~ValidIdx(sigma, n)
      THEN Raised("IndexError")
      ELSE LET m == Monomial(ListGet(self.velocities, rho),
                             ListGet(self.velocities, sigma))
           IN  Returned([result EXCEPT ![m] = RSub(@, gamma.val)])

\* result of compute_geodesic_rhs after k iterations of the inner loop
\* (iteration i is rho = i \div dim, sigma = i % dim).
RECURSIVE GeodesicLoop(_, _, _)
GeodesicLoop(self, mu, k) ==
  IF k = 0 THEN Returned(ZeroRhs)
  ELSE LET prev == GeodesicLoop(self, mu, k - 1)
       IN  IF IsRaised(prev) THEN prev
           ELSE GeodesicStep(self, prev.val, mu,
                             (k - 1) \div self.dim, (k - 1) % self.dim)

\* Metric.compute_geodesic_rhs(mu)
compute_geodesic_rhs(self, mu) ==
  GeodesicLoop(self, mu, self.dim * self.dim)

\* Metric.__init__(g, coordinates): the new object, or the exception.
Metric(g, coordinates) ==
  IF ~IsSquare(g) THEN Raised("NonSquareMatrixError")
  ELSE IF IsSingular(g) THEN Raised("NonInvertibleMatrixError")
  ELSE LET self == [g |-> g,
                    g_inv |-> MatInv(g),
                    coordinates |-> coordinates,
                    dim |-> Len(coordinates),
                    velocities |-> VelocitySymbols]
           rhs == [i \in 1..self.dim |-> compute_geodesic_rhs(self, i - 1)]
       IN  IF \E i \in 1..self.dim : IsRaised(rhs[i])
           THEN Raised("IndexError")
           ELSE Returned([g |-> self.g,
                          g_inv |-> self.g_inv,
                          coordinates |-> self.coordinates,
                          dim |-> self.dim,
                          velocities |-> self.velocities,
                          geodesic_rhs |-> [i \in 1..self.dim |-> rhs[i].val]])

(***************************************************************************)
(* Inputs of the constructor.                                              *)
(***************************************************************************)
Lin(c, d1, d2, dP) ==
  [c |-> c,
   d |-> [s \in Symbols |->
            IF s = 1 THEN d1 ELSE IF s = 2 THEN d2
            ELSE IF s = NSym THEN dP ELSE 0]]

\* Entries of the input matrices, over the symbols x1, x2, ... and the
\* parameter P (the last symbol): 0, 1, -1, 1 + x1 + 2*x2, x2 + P.
E0 == Const(Symbols, 0)
E1 == Const(Symbols, 1)
EM == Const(Symbols, 0 - 1)
EA == Lin(1, 1, 2, 0)
EB == Lin(0, 0, 1, 1)

DiagEntries == {E0, EM, EA}
OffPairs == {<<E0, E0>>, <<EB, EB>>, <<EB, E0>>, <<E1, E1>>, <<E0, E1>>}

\* The n x n matrix with 1 on the diagonal except for entry dv at (k, k),
\* and the pair off at the corners (1, n) and (n, 1).
SquareInput(n, k, dv, off) ==
  [rows |-> n, cols |-> n,
   e |-> [i \in 1..n |->
            [j \in 1..n |->
               IF i = j THEN (IF i = k THEN dv ELSE E1)
               ELSE IF i = 1 /\ j = n THEN off[1]
               ELSE IF i = n /\ j = 1 THEN off[2]
               ELSE E0]]]

SquareInputs ==
  {SquareInput(n, k, dv, off) :
     n \in 1..MaxSide, k \in 1..MaxSide, dv \in DiagEntries \cup {E1},
     off \in OffPairs}

\* Matrices that are not square (every entry 1).
NonSquareInputs ==
  {[rows |-> r, cols |-> c, e |-> [i \in 1..r |-> [j \in 1..c |-> E1]]] :
     r \in 1..MaxSide, c \in {1, MaxSide}} \ SquareInputs

InputMatrices == SquareInputs \cup NonSquareInputs

\* Coordinate lists: [x1, ..., xn] for n up to MaxCoords, and [x2, x1].
CoordinateLists == {[k \in 1..n |-> k] : n \in 0..MaxCoords} \cup {<<2, 1>>}

\* Indices a caller passes to the queries: in range, one past every
\* coordinate list, and negative ones (-1, and one below every matrix).
Indices == {0 - MaxSide - 1, 0 - 1} \cup 0..MaxCoords

(***************************************************************************)
(* State.                                                                  *)
(***************************************************************************)
VARIABLES
  arg_g,            \* the matrix passed to Metric(...)
  arg_coordinates,  \* the coordinate list passed to Metric(...)
  heap,             \* the Metric objects constructed so far, by identity
  self,             \* identity of the Metric under test (0: none)
  exc,              \* exception raised by its construction ("" : none)
  ret,              \* the last query on it and its outcome
  nwrites,          \* number of assignments to self.geodesic_rhs
  pc,               \* getMetric: position of the running call
  name,             \* getMetric: its argument
  kerr,             \* getMetric: the local kerr (identity, 0: unbound)
  schwarzschild,    \* getMetric: the local schwarzschild
  out,              \* getMetric: outcome of the last call
  calls,            \* getMetric: number of calls started
  returned          \* getMetric: identities of the Metrics returned so far

vars == <<arg_g, arg_coordinates, heap, self, exc, ret, nwrites,
          pc, name, kerr, schwarzschild, out, calls, returned>>

registryVars == <<pc, name, kerr, schwarzschild, out, calls, returned>>

NoRet == [op |-> "none"]
NoOut == [op |-> "none"]

Init ==
  /\ arg_g \in InputMatrices
  /\ arg_coordinates \in CoordinateLists
  /\ heap = <<>>
  /\ self = 0
  /\ exc = ""
  /\ ret = NoRet
  /\ nwrites = 0
  /\ pc = "idle"
  /\ name = ""
  /\ kerr = 0
  /\ schwarzschild = 0
  /\ out = NoOut
  /\ calls = 0
  /\ returned = <<>>

\* m = Metric(arg_g, arg_coordinates)
Construct ==
  /\ self = 0
  /\ exc = ""
  /\ LET r == Metric(arg_g, arg_coordinates)
     IN  IF IsRaised(r)
         THEN /\ exc' = r.exc
              /\ UNCHANGED <<heap, self, nwrites>>
         ELSE /\ heap' = Append(heap, r.val)
              /\ self' = Len(heap) + 1
              /\ nwrites' = nwrites + 1
              /\ exc' = exc
  /\ UNCHANGED <<arg_g, arg_coordinates, ret>>
  /\ UNCHANGED registryVars

\* m.deriv(mu, nu, rho)
CallDeriv ==
  /\ self # 0
  /\ ret = NoRet
  /\ \E mu, nu, rho \in Indices :
       ret' = [op |-> "deriv", args |-> <<mu, nu, rho>>,
               res |-> deriv(heap[self], mu, nu, rho)]
  /\ UNCHANGED <<arg_g, arg_coordinates, heap, self, exc, nwrites>>
  /\ UNCHANGED registryVars

\* m.compute_christoffel(mu, rho, sigma)
CallChristoffel ==
  /\ self # 0
  /\ ret = NoRet
  /\ \E mu, rho, sigma \in Indices :
       ret' = [op |-> "compute_christoffel", args |-> <<mu, rho, sigma>>,
               res |-> compute_christoffel(heap[self], mu, rho, sigma)]
  /\ UNCHANGED <<arg_g, arg_coordinates, heap, self, exc, nwrites>>
  /\ UNCHANGED registryVars

\* Mutant of CallGeodesicRhs: the method stores what it computed in
\* self.geodesic_rhs.
CallGeodesicRhs_Storing ==
  /\ self # 0
  /\ ret = NoRet
  /\ \E mu \in Indices :
       LET r == compute_geodesic_rhs(heap[self], mu)
       IN  /\ ret' = [op |-> "compute_geodesic_rhs", args |-> <<mu>>, res |-> r]
           /\ heap' = IF IsRaised(r) THEN heap
                      ELSE [heap EXCEPT ![self].geodesic_rhs = Append(@, r.val)]
           /\ nwrites' = IF IsRaised(r) THEN nwrites ELSE nwrites + 1
  /\ UNCHANGED <<arg_g, arg_coordinates, self, exc>>
  /\ UNCHANGED registryVars

\* m.compute_geodesic_rhs(mu)
CallGeodesicRhs ==
  /\ self # 0
  /\ ret = NoRet
  /\ \E mu \in Indices :
       ret' = [op |-> "compute_geodesic_rhs", args |-> <<mu>>,
               res |-> compute_geodesic_rhs(heap[self], mu)]
  /\ UNCHANGED <<arg_g, arg_coordinates, heap, self, exc, nwrites>>
  /\ UNCHANGED registryVars

\* m.geodesic_rhs[mu]
ReadGeodesicRhs ==
  /\ self # 0
  /\ ret = NoRet
  /\ \E mu \in Indices :
       ret' = [op |-> "geodesic_rhs", args |-> <<mu>>,
               res |-> IF ValidIdx(mu, Len(heap[self].geodesic_rhs))
                       THEN Returned(ListGet(heap[self].geodesic_rhs, mu))
                       ELSE Raised("IndexError")]
  /\ UNCHANGED <<arg_g, arg_coordinates, heap, self, exc, nwrites>>
  /\ UNCHANGED registryVars

\* The caller takes the outcome of the query and goes on.
TakeResult ==
  /\ ret # NoRet
  /\ ret' = NoRet
  /\ UNCHANGED <<arg_g, arg_coordinates, heap, self, exc, nwrites>>
  /\ UNCHANGED registryVars

Next ==
  \/ Construct
  \/ CallDeriv
  \/ CallChristoffel
  \/ CallGeodesicRhs
  \/ ReadGeodesicRhs
  \/ TakeResult

Spec == Init /\ [][Next]_vars

(***************************************************************************)
(* getMetric(name).  The presets' entries are not polynomials; each is     *)
(* given by its value and partial derivatives at the sample point          *)
(* t = 0, r = 1, theta = pi/2, phi = 0, M = 1, a = 0, where                *)
(* sigma = 1, delta = -1, sin(theta) = 1 and cos(theta) = 0.               *)
(***************************************************************************)
PresetSymbols == {"t", "r", "theta", "phi", "M", "a"}

\* An expression with value c and partial derivatives dr, dM, da with
\* respect to r, M, a (those with respect to t, theta, phi are 0 at the
\* sample point for every entry of both presets).
PE(c, dr, dM, da) ==
  [c |-> c,
   d |-> [s \in PresetSymbols |->
            IF s = "r" THEN dr ELSE IF s = "M" THEN dM
            ELSE IF s = "a" THEN da ELSE 0]]

PZero == PE(0, 0, 0, 0)

\* coordinates = [t, r, theta, phi]
PresetCoordinates == <<"t", "r", "theta", "phi">>

Matrix4(rows) ==
  [rows |-> 4, cols |-> 4, e |-> [i \in 1..4 |-> [j \in 1..4 |-> rows[i][j]]]]

\* The Kerr matrix:
\*   g[0,0] = -(1 - 2*M*r/sigma)             -> 1, d/dr = -2, d/dM = 2
\*   g[0,3] = g[3,0] = -2*a*M*r/sigma*sin^2  -> 0, d/da = -2
\*   g[1,1] = sigma/delta                    -> -1, d/dr = -2, d/dM = 2
\*   g[2,2] = sigma                          -> 1, d/dr = 2
\*   g[3,3] = (r^2 + a^2 + ...)*sin^2        -> 1, d/dr = 2
KerrMatrix ==
  Matrix4(<<
    <<PE(1, 0 - 2, 2, 0), PZero, PZero, PE(0, 0, 0, 0 - 2)>>,
    <<PZero, PE(0 - 1, 0 - 2, 2, 0), PZero, PZero>>,
    <<PZero, PZero, PE(1, 2, 0, 0), PZero>>,
    <<PE(0, 0, 0, 0 - 2), PZero, PZero, PE(1, 2, 0, 0)>> >>)

\* The Schwarzschild matrix:
\*   g[0,0] = -(1 - 2*M/r)      -> 1, d/dr = -2, d/dM = 2
\*   g[1,1] = (1 - 2*M/r)^(-1)  -> -1, d/dr = -2, d/dM = 2
\*   g[2,2] = r^2               -> 1, d/dr = 2
\*   g[3,3] = r^2*sin^2         -> 1, d/dr = 2
SchwarzschildMatrix ==
  Matrix4(<<
    <<PE(1, 0 - 2, 2, 0), PZero, PZero, PZero>>,
    <<PZero, PE(0 - 1, 0 - 2, 2, 0), PZero, PZero>>,
    <<PZero, PZero, PE(1, 2, 0, 0), PZero>>,
    <<PZero, PZero, PZero, PE(1, 2, 0, 0)>> >>)

KerrSymbols == <<"t", "r", "theta", "phi", "M", "a">>
SchwarzschildSymbols == <<"t", "r", "theta", "phi", "M">>

\* The names a caller passes.
Names == {"kerr", "schwarzschild", "minkowski", "Kerr", ""}

\* A caller calls getMetric(name).
GetMetricCall ==
  /\ pc = "idle"
  /\ calls < MaxCalls
  /\ name' \in Names
  /\ pc' = "kerr"
  /\ kerr' = 0
  /\ schwarzschild' = 0
  /\ out' = NoOut
  /\ calls' = calls + 1
  /\ UNCHANGED <<arg_g, arg_coordinates, heap, self, exc, ret, nwrites, returned>>

\* Mutant of BuildKerr: the Kerr Metric is built by the first call only and
\* kept for the later ones.
BuildKerr_Kept ==
  /\ pc = "kerr"
  /\ IF heap # <<>>
     THEN /\ kerr' = 1
          /\ heap' = heap
     ELSE /\ heap' = Append(heap, Metric(KerrMatrix, PresetCoordinates).val)
          /\ kerr' = Len(heap) + 1
  /\ pc' = "schwarzschild"
  /\ UNCHANGED <<arg_g, arg_coordinates, self, exc, ret, nwrites,
                 name, schwarzschild, out, calls, returned>>

\* kerr = Metric(g, coordinates)
BuildKerr ==
  /\ pc = "kerr"
  /\ LET r == Metric(KerrMatrix, PresetCoordinates)
     IN  IF IsRaised(r)
         THEN /\ out' = r
              /\ pc' = "idle"
              /\ UNCHANGED <<heap, kerr>>
         ELSE /\ heap' = Append(heap, r.val)
              /\ kerr' = Len(heap) + 1
              /\ pc' = "schwarzschild"
              /\ out' = out
  /\ UNCHANGED <<arg_g, arg_coordinates, self, exc, ret, nwrites,
                 name, schwarzschild, calls, returned>>

\* schwarzschild = Metric(g, coordinates)
BuildSchwarzschild ==
  /\ pc = "schwarzschild"
  /\ LET r == Metric(SchwarzschildMatrix, PresetCoordinates)
     IN  IF IsRaised(r)
         THEN /\ out' = r
              /\ pc' = "idle"
              /\ UNCHANGED <<heap, schwarzschild>>
         ELSE /\ heap' = Append(heap, r.val)
              /\ schwarzschild' = Len(heap) + 1
              /\ pc' = "select"
              /\ out' = out
  /\ UNCHANGED <<arg_g, arg_coordinates, self, exc, ret, nwrites,
                 name, kerr, calls, returned>>

\* Mutant of Select: an unknown name falls back to the Kerr entry.
Select_Fallback ==
  /\ pc = "select"
  /\ LET metrics == [kerr |-> <<kerr, KerrSymbols>>,
                     schwarzschild |-> <<schwarzschild, SchwarzschildSymbols>>]
         entry == IF name \in DOMAIN metrics THEN metrics[name]
                  ELSE metrics["kerr"]
     IN  /\ out' = Returned(entry)
         /\ returned' = Append(returned, entry[1])
  /\ pc' = "idle"
  /\ UNCHANGED <<arg_g, arg_coordinates, heap, self, exc, ret, nwrites,
                 name, kerr, schwarzschild, calls>>

\* metrics = {...}; return metrics[name]
Select ==
  /\ pc = "select"
  /\ LET metrics == [kerr |-> <<kerr, KerrSymbols>>,
                     schwarzschild |-> <<schwarzschild, SchwarzschildSymbols>>]
     IN  IF name \in DOMAIN metrics
         THEN /\ out' = Returned(metrics[name])
              /\ returned' = Append(returned, metrics[name][1])
         ELSE /\ out' = Raised("KeyError")
              /\ returned' = returned
  /\ pc' = "idle"
  /\ UNCHANGED <<arg_g, arg_coordinates, heap, self, exc, ret, nwrites,
                 name, kerr, schwarzschild, calls>>

InitRegistry ==
  /\ arg_g = SquareInput(1, 1, E1, <<E0, E0>>)
  /\ arg_coordinates = <<>>
  /\ heap = <<>>
  /\ self = 0
  /\ exc = ""
  /\ ret = NoRet
  /\ nwrites = 0
  /\ pc = "idle"
  /\ name = ""
  /\ kerr = 0
  /\ schwarzschild = 0
  /\ out = NoOut
  /\ calls = 0
  /\ returned = <<>>

NextRegistry ==
  \/ GetMetricCall
  \/ BuildKerr
  \/ BuildSchwarzschild
  \/ Select

SpecRegistry == InitRegistry /\ [][NextRegistry]_vars

(***************************************************************************)
(* Properties.                                                             *)
(***************************************************************************)
\* The Metric under test (self # 0).
M == heap[self]

InRange(i) == i \in 0..(M.dim - 1)

Constructed == self # 0

ChristoffelDone ==
  /\ Constructed
  /\ ret.op = "compute_christoffel"

\* A compute_christoffel query with mu, rho, sigma in [0, dim) has returned.
ChristoffelInRange ==
  /\ ChristoffelDone
  /\ \A k \in 1..3 : InRange(ret.args[k])

IsSymmetric(A) ==
  /\ IsSquare(A)
  /\ \A i, j \in 1..A.rows : A.e[i][j] = A.e[j][i]

IsDefined(q) == q[2] # 0

\* C1 as stated: for every constructed Metric and mu, rho, sigma in
\* [0, dim), compute_christoffel(mu, rho, sigma) has the same value as
\* compute_christoffel(mu, sigma, rho).
C1_AnyMetricSymmetric ==
  ChristoffelInRange =>
    ret.res = compute_christoffel(M, ret.args[1], ret.args[3], ret.args[2])

\* C1 amended: for every constructed Metric whose matrix g is symmetric and
\* mu, rho, sigma in [0, dim), compute_christoffel(mu, rho, sigma) has the
\* same value as compute_christoffel(mu, sigma, rho).
C1_SymmetricMetricSymmetric ==
  (ChristoffelInRange /\ IsSymmetric(M.g)) =>
    ret.res = compute_christoffel(M, ret.args[1], ret.args[3], ret.args[2])

\* C1 witness: on a Metric with symmetric g, a Christoffel symbol with
\* rho # sigma has been computed and has a defined value other than 0.
C1_Witness ==
  /\ ChristoffelInRange
  /\ IsSymmetric(M.g)
  /\ ret.args[2] # ret.args[3]
  /\ ~IsRaised(ret.res)
  /\ IsDefined(ret.res.val)
  /\ ret.res.val # RZero

\* The derivative of g[i, j] with respect to coordinates[k] (0-based),
\* read off the entry directly.
PartialG(k, i, j) == M.g.e[i + 1][j + 1].d[M.coordinates[k + 1]]

\* SUM over nu = 0 .. n-1 of
\*   g_inv[mu, nu] * (d_rho g[nu, sigma] + d_sigma g[nu, rho] - d_nu g[rho, sigma])
RECURSIVE FormulaSum(_, _, _, _)
FormulaSum(mu, rho, sigma, n) ==
  IF n = 0 THEN RZero
  ELSE LET nu == n - 1
       IN  RAdd(FormulaSum(mu, rho, sigma, nu),
                RMul(M.g_inv.e[mu + 1][nu + 1],
                     RInt(PartialG(rho, nu, sigma) + PartialG(sigma, nu, rho)
                          - PartialG(nu, rho, sigma))))

\* C2: for mu, rho, sigma in [0, dim), compute_christoffel(mu, rho, sigma)
\* returns (1/2) * SUM_nu g_inv[mu, nu] * (d_rho g[nu, sigma]
\* + d_sigma g[nu, rho] - d_nu g[rho, sigma]), d_k being the derivative with
\* respect to coordinates[k].
C2_ChristoffelFormula ==
  ChristoffelInRange =>
    ret.res = Returned(RMul(RHalf,
                FormulaSum(ret.args[1], ret.args[2], ret.args[3], M.dim)))

\* C2 witness: a Christoffel symbol with rho # sigma and a defined value
\* other than 0 has been computed on a Metric whose g has an off-diagonal
\* entry that depends on a coordinate.
C2_Witness ==
  /\ ChristoffelInRange
  /\ ~IsRaised(ret.res)
  /\ IsDefined(ret.res.val)
  /\ ret.res.val # RZero
  /\ ret.args[2] # ret.args[3]
  /\ \E i, j \in 0..(M.dim - 1) : \E k \in 0..(M.dim - 1) :
       i # j /\ PartialG(k, i, j) # 0

RECURSIVE RSumOver(_, _, _)
\* SUM of compute_christoffel(mu, rho, sigma) over the pairs <<rho, sigma>> in P.
RSumOver(mu, P, acc) ==
  IF P = {} THEN acc
  ELSE LET p == CHOOSE x \in P : TRUE
       IN  RSumOver(mu, P \ {p},
                    RAdd(acc, compute_christoffel(M, mu, p[1], p[2]).val))

\* The coefficient of the monomial m in
\* - SUM_rho SUM_sigma christoffel(mu, rho, sigma) * u_rho * u_sigma.
RhsCoefficient(mu, m) ==
  RNeg(RSumOver(mu,
                {p \in (0..(M.dim - 1)) \X (0..(M.dim - 1)) :
                   Monomial(M.velocities[p[1] + 1], M.velocities[p[2] + 1]) = m},
                RZero))

GeodesicRead ==
  /\ Constructed
  /\ ret.op = "geodesic_rhs"
  /\ InRange(ret.args[1])

\* C3: after a successful construction geodesic_rhs has exactly dim entries
\* and, for mu in [0, dim), geodesic_rhs[mu] equals
\* - SUM_rho SUM_sigma compute_christoffel(mu, rho, sigma)
\*   * velocities[rho] * velocities[sigma].
C3_GeodesicRhs ==
  /\ Constructed => Len(M.geodesic_rhs) = M.dim
  /\ GeodesicRead =>
       /\ ~IsRaised(ret.res)
       /\ ret.res.val = M.geodesic_rhs[ret.args[1] + 1]
       /\ \A m \in Monomials : ret.res.val[m] = RhsCoefficient(ret.args[1], m)

\* C3 witness: geodesic_rhs[mu] has been read on a Metric with dim >= 2 and
\* it has a defined coefficient other than 0 at a mixed monomial.
C3_Witness ==
  /\ GeodesicRead
  /\ M.dim >= 2
  /\ \E m \in Monomials :
       /\ Cardinality(m) = 2
       /\ IsDefined(ret.res.val[m])
       /\ ret.res.val[m] # RZero

\* C4: constructing a Metric from a (square) matrix whose side differs from
\* the length of the (non-empty) coordinate list always fails: no Metric is
\* produced.
C4_MismatchFails ==
  (/\ IsSquare(arg_g)
   /\ Len(arg_coordinates) > 0
   /\ arg_g.rows # Len(arg_coordinates)) => ~Constructed

\* The input was a matrix of side n with n coordinates, n > 0.
MatchedInput ==
  /\ IsSquare(arg_g)
  /\ arg_g.rows = Len(arg_coordinates)

\* C5: on a constructed Metric (here: of an n x n matrix with n
\* coordinates), compute_christoffel(mu, rho, sigma) or
\* compute_geodesic_rhs(mu) with an index outside [0, dim) raises instead of
\* returning an expression.
C5_OutOfRangeRaises ==
  (/\ Constructed
   /\ MatchedInput
   /\ ret.op \in {"compute_christoffel", "compute_geodesic_rhs"}
   /\ \E k \in 1..Len(ret.args) : ~InRange(ret.args[k]))
  => IsRaised(ret.res)

\* C6: every Metric constructed from an input of dimension n > 0 (an n x n
\* matrix with n coordinates) has dim equal to the side of g and to the
\* number of coordinates, and velocities holds exactly dim symbols.
C6_DimensionGeneric ==
  (Constructed /\ MatchedInput) =>
    /\ M.dim = M.g.rows
    /\ M.dim = Len(M.coordinates)
    /\ Len(M.velocities) = M.dim

\* C7: geodesic_rhs is assigned exactly once, by the constructor; no query
\* (deriv, compute_christoffel, compute_geodesic_rhs, a read of
\* geodesic_rhs) changes a field of the Metric, and a read of
\* geodesic_rhs[mu] returns the entry the constructor stored.
C7_Immutable ==
  /\ [](Constructed => nwrites = 1)
  /\ []((Constructed /\ ret.op = "geodesic_rhs" /\ InRange(ret.args[1]))
          => ret.res = Returned(M.geodesic_rhs[ret.args[1] + 1]))
  /\ [][Constructed =>
          /\ self' = self
          /\ heap'[self] = heap[self]
          /\ nwrites' = nwrites]_vars

\* C7 witness: compute_geodesic_rhs(mu) has returned, for mu in range, an
\* expression with a coefficient other than 0 (next to the cached one).
C7_Witness ==
  /\ Constructed
  /\ nwrites = 1
  /\ ret.op = "compute_geodesic_rhs"
  /\ InRange(ret.args[1])
  /\ ~IsRaised(ret.res)
  /\ ret.res.val = M.geodesic_rhs[ret.args[1] + 1]
  /\ ret.res.val # ZeroRhs

IsConstantMatrix(A) ==
  \A i \in 1..A.rows : \A j \in 1..A.cols :
    \A s \in DOMAIN A.e[i][j].d : A.e[i][j].d[s] = 0

\* C9: on a Metric built from an invertible matrix of constants,
\* compute_christoffel(mu, rho, sigma) is 0 for mu, rho, sigma in [0, dim)
\* and geodesic_rhs[mu] is 0 (every coefficient, so for all velocities) for
\* mu in [0, dim).
C9_FlatSpace ==
  (Constructed /\ IsConstantMatrix(M.g)) =>
    /\ ChristoffelInRange => ret.res = Returned(RZero)
    /\ GeodesicRead => ret.res = Returned(ZeroRhs)
    /\ \A mu \in 1..M.dim : M.geodesic_rhs[mu] = ZeroRhs

\* C9 witness: a Christoffel symbol has been computed on a Metric of
\* dimension >= 2 built from a matrix of constants that is not diagonal.
C9_Witness ==
  /\ ChristoffelInRange
  /\ IsConstantMatrix(M.g)
  /\ M.dim >= 2
  /\ \E i, j \in 1..M.g.rows : i # j /\ M.g.e[i][j].c # 0

(***************************************************************************)
(* Properties of getMetric (specification SpecRegistry).                   *)
(***************************************************************************)
\* A call of getMetric has completed.
CallDone == pc = "idle" /\ calls > 0

\* C8: getMetric(name) with a name other than "kerr" and "schwarzschild"
\* fails with KeyError; with "kerr" or "schwarzschild" it returns that
\* preset's Metric, with dim = 4 and coordinates [t, r, theta, phi], and the
\* list [t, r, theta, phi, M, a] (kerr) or [t, r, theta, phi, M]
\* (schwarzschild).
C8_Lookup ==
  CallDone =>
    /\ name \notin {"kerr", "schwarzschild"} => out = Raised("KeyError")
    /\ name \in {"kerr", "schwarzschild"} =>
         /\ ~IsRaised(out)
         /\ out.val[1] \in 1..Len(heap)
         /\ heap[out.val[1]].dim = 4
         /\ heap[out.val[1]].coordinates = <<"t", "r", "theta", "phi">>
    /\ name = "kerr" =>
         /\ heap[out.val[1]].g = KerrMatrix
         /\ out.val[2] = <<"t", "r", "theta", "phi", "M", "a">>
    /\ name = "schwarzschild" =>
         /\ heap[out.val[1]].g = SchwarzschildMatrix
         /\ out.val[2] = <<"t", "r", "theta", "phi", "M">>

\* C8 witness: a lookup of an unknown name has failed after an earlier
\* lookup returned a preset.
C8_Witness ==
  /\ CallDone
  /\ out = Raised("KeyError")
  /\ Len(returned) >= 1

\* C10: every call of getMetric constructs the Kerr Metric, then the
\* Schwarzschild Metric, and only then selects by name: an outcome (a
\* returned preset or the KeyError of an unknown name) exists only once both
\* have been constructed by this call, in that order, as new objects, and
\* no two calls return the same object.
C10_BuildBothThenSelect ==
  /\ pc = "kerr" => (kerr = 0 /\ schwarzschild = 0 /\ out = NoOut)
  /\ pc = "schwarzschild" =>
       (kerr = Len(heap) /\ schwarzschild = 0 /\ out = NoOut)
  /\ pc = "select" =>
       (kerr = Len(heap) - 1 /\ schwarzschild = Len(heap) /\ out = NoOut)
  /\ CallDone =>
       /\ out # NoOut
       /\ Len(heap) = 2 * calls
       /\ kerr = Len(heap) - 1
       /\ schwarzschild = Len(heap)
       /\ heap[kerr].g = KerrMatrix
       /\ heap[schwarzschild].g = SchwarzschildMatrix
       /\ ~IsRaised(out) => out.val[1] \in {kerr, schwarzschild}
  /\ \A i, j \in 1..Len(returned) : i # j => returned[i] # returned[j]

\* C10 witness: two calls have returned the same preset, as two objects.
C10_Witness ==
  /\ CallDone
  /\ ~IsRaised(out)
  /\ Len(returned) >= 2
  /\ \E i \in 1..(Len(returned) - 1) :
       /\ returned[i] # out.val[1]
       /\ heap[returned[i]].g = heap[out.val[1]].g

====
